---- MODULE Spec2Model ----
(***************************************************************************)
(* Tamil hadith text pipeline: clean_text.py (garbled-character repair),   *)
(* clean4.py (residual Latin cleanup), build_db.py and extract_hadith.py   *)
(* (segmentation into entries, sqlite load).                               *)
(*                                                                         *)
(* A text buffer is a sequence of Unicode code points (Python str), so     *)
(* len(), slicing and the regular expressions are modelled character by    *)
(* character.                                                              *)
(***************************************************************************)
EXTENDS Integers, Sequences, FiniteSets, TLC

VARIABLES
    pc,               \* position of the running script
    inp,              \* the contents of the script's input file
    text,             \* the script's working buffer `text`
    run,              \* clean_text / build_db: number of the current run
    parts,            \* build_db / extract_hadith: re.split(pattern, text)
    i,                \* build_db / extract_hadith: loop index
    current_book,     \* build_db: current_book
    current_chapter,  \* build_db: current_chapter
    rows,             \* build_db: INSERTed, uncommitted rows; extract_hadith: hadiths
    db,               \* build_db: committed rows of table hadiths in bukhari.db
    completed         \* history: the rows committed by the last run of build_db that ended

vars == <<pc, inp, text, run, parts, i, current_book, current_chapter, rows, db,
          completed>>

-----------------------------------------------------------------------------
(* Bounds of the explored inputs *)

MaxCleanLen == 3
MaxClean4Units == 3
MaxDbUnits == 4
MaxExUnits == 4
MaxRuns == 2
MaxRunUnits == 2

-----------------------------------------------------------------------------
(* Character classes of Python's re / str *)

LF == 10
SPACE == 32
PERIOD == 46

\* [஀-௿]
IsTamil(c) == c >= 2944 /\ c <= 3071

\* \s and str.isspace() for str patterns
WhiteSpace == (9..13) \cup (28..32) \cup {133, 160, 5760} \cup (8192..8202)
                \cup {8232, 8233, 8239, 8287}

IsSpace(c) == c \in WhiteSpace

\* first code points of the Unicode decimal-digit blocks below U+1000 (\d)
DigitZeros == {48, 1632, 1776, 1984, 2406, 2534, 2662, 2790, 2918, 3046,
               3174, 3302, 3430, 3558, 3664, 3792, 3872}

IsDigit(c) == \E z \in DigitZeros : c >= z /\ c <= z + 9

\* [A-Za-z]
IsLatin(c) == (c >= 65 /\ c <= 90) \/ (c >= 97 /\ c <= 122)

-----------------------------------------------------------------------------
(* str and re primitives *)

\* s[a:b] with 1-based inclusive bounds, empty when a > b
Slice(s, a, b) == IF a > b THEN <<>> ELSE SubSeq(s, a, b)

\* s.startswith(w, p-1): w occurs in s at position p
MatchAt(s, p, w) ==
    /\ p + Len(w) - 1 <= Len(s)
    /\ \A k \in 1..Len(w) : s[p + k - 1] = w[k]

\* w in s
Contains(s, w) == \E p \in 1..(Len(s) - Len(w) + 1) : MatchAt(s, p, w)

\* the first position in lo..hi that satisfies P, 0 if none
NonZeroOr(a, b) == IF a # 0 THEN a ELSE b

RECURSIVE First(_, _, _)
First(P(_), lo, hi) ==
    IF lo > hi THEN 0
    ELSE IF lo = hi THEN (IF P(lo) THEN lo ELSE 0)
    ELSE NonZeroOr(First(P, lo, (lo + hi) \div 2), First(P, (lo + hi) \div 2 + 1, hi))

\* the last position in lo..hi that satisfies P, 0 if none
RECURSIVE Last(_, _, _)
Last(P(_), lo, hi) ==
    IF lo > hi THEN 0
    ELSE IF lo = hi THEN (IF P(lo) THEN lo ELSE 0)
    ELSE NonZeroOr(Last(P, (lo + hi) \div 2 + 1, hi), Last(P, lo, (lo + hi) \div 2))

\* the elements of s at the positions of lo..hi that satisfy Keep, in order
RECURSIVE FilterRange(_, _, _, _)
FilterRange(s, Keep(_), lo, hi) ==
    IF lo > hi THEN <<>>
    ELSE IF lo = hi THEN (IF Keep(lo) THEN <<s[lo]>> ELSE <<>>)
    ELSE LET mid == (lo + hi) \div 2
         IN FilterRange(s, Keep, lo, mid) \o FilterRange(s, Keep, mid + 1, hi)

Filter(s, Keep(_)) == FilterRange(s, Keep, 1, Len(s))

\* re.sub for a pattern that matches no empty string. MatchEnd(q) is the position
\* of the last character of the match that starts at q, 0 if the pattern does not
\* match there; Repl(q) is the replacement of that match. The matcher takes the
\* leftmost match, and resumes behind it.
RECURSIVE SubFrom(_, _, _, _)
SubFrom(s, MatchEnd(_), Repl(_), p) ==
    LET Matches(q) == MatchEnd(q) # 0
        q == First(Matches, p, Len(s))
    IN IF q = 0 THEN Slice(s, p, Len(s))
       ELSE Slice(s, p, q - 1) \o Repl(q) \o SubFrom(s, MatchEnd, Repl, MatchEnd(q) + 1)

Sub(s, MatchEnd(_), Repl(_)) == SubFrom(s, MatchEnd, Repl, 1)

\* s.replace(old, new), old non-empty: leftmost non-overlapping occurrences
Replace(s, old, new) ==
    LET MatchEnd(q) == IF MatchAt(s, q, old) THEN q + Len(old) - 1 ELSE 0
        Repl(q) == new
    IN Sub(s, MatchEnd, Repl)

RECURSIVE SplitFrom(_, _, _)
SplitFrom(s, sep, p) ==
    LET IsSep(q) == s[q] = sep
        q == First(IsSep, p, Len(s))
    IN IF q = 0 THEN <<Slice(s, p, Len(s))>>
       ELSE <<Slice(s, p, q - 1)>> \o SplitFrom(s, sep, q + 1)

\* s.split("\n")
SplitLines(s) == SplitFrom(s, LF, 1)

RECURSIVE JoinFrom(_, _)
JoinFrom(ls, k) ==
    IF k > Len(ls) THEN <<>>
    ELSE IF k = Len(ls) THEN ls[k]
    ELSE ls[k] \o <<LF>> \o JoinFrom(ls, k + 1)

\* "\n".join(ls)
JoinLines(ls) == JoinFrom(ls, 1)

\* index of the last non-whitespace character of s, 0 if none
LastNonSpace(s) ==
    LET NonSpace(k) == ~IsSpace(s[k]) IN Last(NonSpace, 1, Len(s))

\* index of the first non-whitespace character of s, Len(s)+1 if none
FirstNonSpace(s) ==
    LET NonSpace(k) == ~IsSpace(s[k])
    IN NonZeroOr(First(NonSpace, 1, Len(s)), Len(s) + 1)

\* s.rstrip()
RStrip(s) == Slice(s, 1, LastNonSpace(s))

\* s.strip()
Strip(s) == Slice(s, FirstNonSpace(s), LastNonSpace(s))

\* the position before q, n when q is 0
Before(q, n) == IF q = 0 THEN n ELSE q - 1

\* end (inclusive) of the maximal run of characters of class C that starts at p;
\* p - 1 if s[p] is not of the class
RunEnd(s, p, C(_)) ==
    LET Other(q) == ~C(s[q])
    IN Before(First(Other, p, Len(s)), Len(s))

\* re.sub(c{2,}, c, s): every run of two or more c becomes one c
CollapseRuns(s, c) ==
    LET IsC(x) == x = c
        MatchEnd(q) == IF MatchAt(s, q, <<c, c>>) THEN RunEnd(s, q, IsC) ELSE 0
        Repl(q) == <<c>>
    IN Sub(s, MatchEnd, Repl)

-----------------------------------------------------------------------------
(* clean_text.py: clean(text) *)

\* PHASE 1: font-encoding garbled characters
LBRACE == 123
RBRACE == 125
PLUS == 43
YEN == 165
INVERTED_EXCLAMATION == 161
RIGHT_GUILLEMET == 187
FEMININE_ORDINAL == 170
A_RING == 229
SIGN_U == 3009
SIGN_UU == 3010
LETTER_UU == 2954

\* re.sub(r"(?<=[஀-௿])\+(?=[஀-௿])", "ூ", text)
SubPlusBetweenTamil(s) ==
    [p \in 1..Len(s) |->
        IF /\ s[p] = PLUS
           /\ p > 1 /\ IsTamil(s[p - 1])
           /\ p < Len(s) /\ IsTamil(s[p + 1])
        THEN SIGN_UU ELSE s[p]]

\* a faulty variant of the before-space rule, which writes the letter uu where the
\* source writes the vowel sign uu
SubPlusBeforeSpaceAsLetter(s) ==
    [p \in 1..Len(s) |->
        IF /\ s[p] = PLUS
           /\ p > 1 /\ IsTamil(s[p - 1])
           /\ p < Len(s) /\ IsSpace(s[p + 1])
        THEN LETTER_UU ELSE s[p]]

\* re.sub(r"(?<=[஀-௿])\+(?=\s)", "ூ", text)
SubPlusBeforeSpace(s) ==
    [p \in 1..Len(s) |->
        IF /\ s[p] = PLUS
           /\ p > 1 /\ IsTamil(s[p - 1])
           /\ p < Len(s) /\ IsSpace(s[p + 1])
        THEN SIGN_UU ELSE s[p]]

CleanPhase1(s) ==
    LET t1 == Replace(s, <<LBRACE>>, <<SIGN_U>>)
        t2 == Replace(t1, <<RBRACE>>, <<SIGN_UU>>)
        t3 == SubPlusBetweenTamil(t2)
        t4 == SubPlusBeforeSpace(t3)
        t5 == Replace(t4, <<YEN>>, <<LETTER_UU>>)
        t6 == Replace(t5, <<INVERTED_EXCLAMATION>>, <<2979, 3008>>)
        t7 == Replace(t6, <<RIGHT_GUILLEMET>>, <<2999, 3007>>)
        t8 == Replace(t7, <<FEMININE_ORDINAL>>, <<2970, 3008>>)
    IN Replace(t8, <<A_RING>>, <<2991, 3010>>)

\* PHASE 2: control characters
APOSTROPHE == 39

CleanPhase2(s) ==
    LET t1 == Replace(s, <<148>>, <<>>)
        t2 == Replace(t1, <<146>>, <<APOSTROPHE>>)
        t3 == Replace(t2, <<145>>, <<APOSTROPHE>>)
    IN Replace(t3, <<132>>, <<>>)

\* PHASE 3: quotation marks
CleanPhase3(s) ==
    LET t1 == Replace(s, <<8216>>, <<APOSTROPHE>>)
        t2 == Replace(t1, <<8217>>, <<APOSTROPHE>>)
        t3 == Replace(t2, <<8220>>, <<34>>)
        t4 == Replace(t3, <<8221>>, <<34>>)
        t5 == Replace(t4, <<8222>>, <<>>)
    IN Replace(t5, <<8224>>, <<>>)

\* PHASE 4: punctuation
COMMA == 44

\* re.sub(r"\.\.(?!\.)", ".", text)
SubDoublePeriod(s) ==
    LET MatchEnd(q) ==
            IF /\ MatchAt(s, q, <<PERIOD, PERIOD>>)
               /\ ~(q + 2 <= Len(s) /\ s[q + 2] = PERIOD)
            THEN q + 1 ELSE 0
        Repl(q) == <<PERIOD>>
    IN Sub(s, MatchEnd, Repl)

CleanPhase4(s) == Replace(SubDoublePeriod(s), <<PERIOD, COMMA>>, <<PERIOD>>)

\* PHASE 5: per line, rstrip and collapse runs of spaces
CleanLine(line) ==
    LET l == RStrip(line)
    IN IF Strip(l) # <<>> THEN CollapseRuns(l, SPACE) ELSE l

CleanPhase5(s) ==
    LET lines == SplitLines(s)
    IN JoinLines([k \in 1..Len(lines) |-> CleanLine(lines[k])])

\* PHASE 6: join single-character orphan lines
LETTER_U == 2953

\* re.sub(r"\n([஀-௿])\n([஀-௿])", lambda m: "\n" + m.group(1) + m.group(2), text)
JoinOrphan(s) ==
    LET MatchEnd(q) ==
            IF /\ q + 3 <= Len(s)
               /\ s[q] = LF /\ IsTamil(s[q + 1]) /\ s[q + 2] = LF /\ IsTamil(s[q + 3])
            THEN q + 3 ELSE 0
        Repl(q) == <<LF, s[q + 1], s[q + 3]>>
    IN Sub(s, MatchEnd, Repl)

\* re.sub(r"\nஉ\n([஀-௿])", lambda m: "\nஉ" + m.group(1), text)
JoinOrphanU(s) ==
    LET MatchEnd(q) ==
            IF /\ q + 3 <= Len(s)
               /\ s[q] = LF /\ s[q + 1] = LETTER_U /\ s[q + 2] = LF /\ IsTamil(s[q + 3])
            THEN q + 3 ELSE 0
        Repl(q) == <<LF, LETTER_U, s[q + 3]>>
    IN Sub(s, MatchEnd, Repl)

CleanPhase6(s) == JoinOrphanU(JoinOrphan(s))

\* clean(text)
clean(s) ==
    CleanPhase6(CleanPhase5(CleanPhase4(CleanPhase3(CleanPhase2(CleanPhase1(s))))))

-----------------------------------------------------------------------------
(* clean_text.py as a state machine: main() reads the input file, clean()  *)
(* runs its six phases in order, main() writes the result.                 *)

\* characters of the explored input buffers: { + ¥ U+0094 ’ . , space \n அ a
CleanAlphabet == {LBRACE, PLUS, YEN, 148, 8217, PERIOD, COMMA, SPACE, LF, 2949, 97}

StringsUpTo(A, n) == UNION {[1..k -> A] : k \in 0..n}

\* a corrupted character behind a Tamil character and before a Tamil character,
\* whitespace or a Latin letter
ContextFrames ==
    {<<2949, c, x>> : c \in {LBRACE, RBRACE, PLUS, YEN, INVERTED_EXCLAMATION,
                             RIGHT_GUILLEMET, FEMININE_ORDINAL, A_RING},
                     x \in {2949, SPACE, LF, 97}}

CleanInputs == StringsUpTo(CleanAlphabet, MaxCleanLen) \cup ContextFrames

SegIdle ==
    /\ parts = <<>>
    /\ i = 0
    /\ current_book = <<>>
    /\ current_chapter = <<>>
    /\ rows = <<>>
    /\ db = <<>>
    /\ completed = <<>>

SegUnchanged ==
    UNCHANGED <<parts, i, current_book, current_chapter, rows, db, completed>>

InitClean ==
    /\ pc = "phase1"
    /\ inp \in CleanInputs
    /\ text = inp
    /\ run = 1
    /\ SegIdle

CleanStep(from, to, result) ==
    /\ pc = from
    /\ text' = result
    /\ pc' = to
    /\ UNCHANGED <<inp, run>>
    /\ SegUnchanged

Phase1 == CleanStep("phase1", "phase2", CleanPhase1(text))
Phase2 == CleanStep("phase2", "phase3", CleanPhase2(text))
Phase3 == CleanStep("phase3", "phase4", CleanPhase3(text))
Phase4 == CleanStep("phase4", "phase5", CleanPhase4(text))
Phase5 == CleanStep("phase5", "phase6", CleanPhase5(text))
Phase6 == CleanStep("phase6", "done", CleanPhase6(text))

\* the engine run again on its own output
CleanAgain ==
    /\ pc = "done"
    /\ run < MaxRuns
    /\ inp' = text
    /\ text' = text
    /\ run' = run + 1
    /\ pc' = "phase1"
    /\ SegUnchanged

NextClean == Phase1 \/ Phase2 \/ Phase3 \/ Phase4 \/ Phase5 \/ Phase6 \/ CleanAgain

SpecClean == InitClean /\ [][NextClean]_vars

CleanDone == pc = "done" /\ run = 1

-----------------------------------------------------------------------------
(* clean_text.py: properties *)

\* C1: clean is idempotent: cleaning the output of a run gives that output again.
\* (In the second run inp is the first run's output.)
C1_Idempotent == (pc = "done" /\ run = 2) => text = inp

\* The corrupted characters clean() remaps in phase 1
CorruptedChars == {LBRACE, RBRACE, PLUS, YEN, INVERTED_EXCLAMATION,
                   RIGHT_GUILLEMET, FEMININE_ORDINAL, A_RING}

\* <Tamil-char><corrupted-char><Tamil-char>
BetweenTamilFrame(s) ==
    Len(s) = 3 /\ IsTamil(s[1]) /\ s[2] \in CorruptedChars /\ IsTamil(s[3])

\* <Tamil-char><corrupted-char><whitespace>
BeforeSpaceFrame(s) ==
    Len(s) = 3 /\ IsTamil(s[1]) /\ s[2] \in CorruptedChars /\ IsSpace(s[3])

\* what the corrupted character of a frame became in the cleaned frame
BetweenTamilMapping(c) ==
    LET out == clean(<<2949, c, 2949>>) IN Slice(out, 2, Len(out) - 1)

BeforeSpaceMapping(c) ==
    LET out == RStrip(clean(<<2949, c, SPACE>>)) IN Slice(out, 2, Len(out))

DocumentedMapping(c) ==
    CASE c = LBRACE -> <<SIGN_U>>
      [] c = RBRACE -> <<SIGN_UU>>
      [] c = PLUS -> <<SIGN_UU>>
      [] c = YEN -> <<LETTER_UU>>
      [] c = INVERTED_EXCLAMATION -> <<2979, 3008>>
      [] c = RIGHT_GUILLEMET -> <<2999, 3007>>
      [] c = FEMININE_ORDINAL -> <<2970, 3008>>
      [] c = A_RING -> <<2991, 3010>>

Only(s, chars) == \A p \in 1..Len(s) : s[p] \in chars

\* C6's expected output: the boundary after a line is removed exactly when the line
\* is one Tamil character and the next line begins with a Tamil character
OrphanLine(lines, k) ==
    /\ k < Len(lines)
    /\ Len(lines[k]) = 1 /\ IsTamil(lines[k][1])
    /\ Len(lines[k + 1]) >= 1 /\ IsTamil(lines[k + 1][1])

RECURSIVE JoinOrphanLines(_, _)
JoinOrphanLines(lines, k) ==
    IF k > Len(lines) THEN <<>>
    ELSE IF k = Len(lines) THEN lines[k]
    ELSE lines[k] \o (IF OrphanLine(lines, k) THEN <<>> ELSE <<LF>>)
                  \o JoinOrphanLines(lines, k + 1)

\* C6: every line that is one Tamil character, followed by a line that begins with a
\* Tamil character, is prepended to that line (first line and runs included); all
\* other lines keep their content and order.
C6_EveryOrphanJoined ==
    (CleanDone /\ Only(inp, {2949, 97, LF})) =>
        text = JoinOrphanLines(SplitLines(inp), 1)

\* lengths of the maximal runs of periods
PeriodRunStarts(s) ==
    {p \in 1..Len(s) : s[p] = PERIOD /\ (p = 1 \/ s[p - 1] # PERIOD)}

IsPeriod(c) == c = PERIOD

PeriodRuns(s) == [p \in PeriodRunStarts(s) |-> RunEnd(s, p, IsPeriod) - p + 1]

\* C8's expected output: a run of two periods becomes one period, a run of three
\* stays three
RECURSIVE RepairPeriods(_, _)
RepairPeriods(s, p) ==
    IF p > Len(s) THEN <<>>
    ELSE IF s[p] = PERIOD
         THEN LET e == RunEnd(s, p, IsPeriod)
              IN (IF e - p + 1 = 2 THEN <<PERIOD>> ELSE Slice(s, p, e))
                     \o RepairPeriods(s, e + 1)
         ELSE <<s[p]>> \o RepairPeriods(s, p + 1)

\* C8: a double period that is not part of an ellipsis becomes one period, an
\* ellipsis of three periods is left unchanged, and a period-comma becomes a period.
C8_EllipsisKept ==
    /\ (/\ CleanDone /\ Only(inp, {PERIOD, 97})
        /\ \A p \in PeriodRunStarts(inp) : PeriodRuns(inp)[p] <= 3) =>
            text = RepairPeriods(inp, 1)
    /\ (CleanDone /\ inp = <<97, PERIOD, COMMA>>) => text = <<97, PERIOD>>

-----------------------------------------------------------------------------
(* clean4.py: garbled header lines and stray Latin letters *)

garbled_header ==
    <<2985, 3009, 2991, 2994, 2991, 32, 2960, 2995, 2975, 2991, 2949, 105, 2953,
      32, 2950, 2984, 2985, 2991, 3016, 32, 45, 32, 80, 2984, 2970, 2994, 3016,
      2991, 2990, 2992, 2975, 2991, 2949, 32, 2954, 2996, 2997, 3014, 2991, 2953,
      2997, 32, 58, 32, 2985, 2986, 105, 110, 2991, 3018>>

\* 1. lines = [l for l in lines if garbled_header not in l]
RemoveHeaderLines(s) ==
    LET lines == SplitLines(s)
        Keep(k) == ~Contains(lines[k], garbled_header)
    IN JoinLines(Filter(lines, Keep))

LATIN_h == 104
LATIN_N == 78
LATIN_n == 110
LATIN_i == 105
LETTER_NA == 2984

\* 2c. re.sub(r'ர்h(?=\s|[,.\'\"]|$)', 'ர்', text)
SubTrailingRh(s) ==
    LET MatchEnd(q) ==
            IF /\ MatchAt(s, q, <<2992, 3021, LATIN_h>>)
               /\ \/ q + 3 > Len(s)
                  \/ IsSpace(s[q + 3])
                  \/ s[q + 3] \in {COMMA, PERIOD, APOSTROPHE, 34}
            THEN q + 2 ELSE 0
        Repl(q) == <<2992, 3021>>
    IN Sub(s, MatchEnd, Repl)

\* 2d. re.sub(r'(?<=\s)h(?=[஀-௿])', 'ந', text)
SubInitialH(s) ==
    [p \in 1..Len(s) |->
        IF /\ s[p] = LATIN_h
           /\ p > 1 /\ IsSpace(s[p - 1])
           /\ p < Len(s) /\ IsTamil(s[p + 1])
        THEN LETTER_NA ELSE s[p]]

\* 2d. re.sub(r'^h(?=[஀-௿])', 'ந', text, flags=re.MULTILINE)
SubLineStartH(s) ==
    [p \in 1..Len(s) |->
        IF /\ s[p] = LATIN_h
           /\ (p = 1 \/ s[p - 1] = LF)
           /\ p < Len(s) /\ IsTamil(s[p + 1])
        THEN LETTER_NA ELSE s[p]]

\* 2e. re.sub(r'(?<=[஀-௿])N', '', text)
DeleteNAfterTamil(s) ==
    LET Keep(p) == ~(s[p] = LATIN_N /\ p > 1 /\ IsTamil(s[p - 1]))
    IN Filter(s, Keep)

\* 2f. re.sub(r'n(?=[஀-௿])', '', text)
DeleteNBeforeTamil(s) ==
    LET Keep(p) == ~(s[p] = LATIN_n /\ p < Len(s) /\ IsTamil(s[p + 1]))
    IN Filter(s, Keep)

\* 2g. re.sub(r'(?<=[஀-௿])i', '', text)
DeleteIAfterTamil(s) ==
    LET Keep(p) == ~(s[p] = LATIN_i /\ p > 1 /\ IsTamil(s[p - 1]))
    IN Filter(s, Keep)

\* 2. word-level fixes, in the order of the script
FixWords(s) ==
    LET t1 == Replace(s, <<2984, 3021, LATIN_h>>, <<2984, 3006>>)
        t2 == Replace(t1, <<2965, 3021, LATIN_h, 2995>>, <<2992, 3021, 2965, 2995>>)
        t3 == SubTrailingRh(t2)
        t4 == SubInitialH(t3)
        t5 == SubLineStartH(t4)
        t6 == DeleteNAfterTamil(t5)
        t7 == DeleteNBeforeTamil(t6)
    IN DeleteIAfterTamil(t7)

\* re.findall(r'[A-Za-z]', text)
HasLatin(s) == \E p \in 1..Len(s) : IsLatin(s[p])

\* a faulty variant of the backstop, which deletes the lower-case letters only
RemoveLowerCase(s) ==
    LET Keep(p) == ~(s[p] >= 97 /\ s[p] <= 122)
    IN Filter(s, Keep)

\* 3. if remaining: text = re.sub(r'[A-Za-z]', '', text)
RemoveLatin(s) ==
    LET Keep(p) == ~IsLatin(s[p])
    IN IF HasLatin(s) THEN Filter(s, Keep) ELSE s

\* 4. collapse spaces, strip the lines, drop the blank lines
FinalCleanup(s) ==
    LET lines == SplitLines(CollapseRuns(s, SPACE))
        stripped == [k \in 1..Len(lines) |-> Strip(lines[k])]
        Keep(k) == stripped[k] # <<>>
    IN JoinLines(Filter(stripped, Keep))

\* the pieces the explored clean3.txt buffers are made of:
\* h N n i P, the syllables ந் க் ர், ள, space, \n, comma, the garbled header
Clean4Units == {<<LATIN_h>>, <<LATIN_N>>, <<LATIN_n>>, <<LATIN_i>>, <<80>>,
                <<2984, 3021>>, <<2965, 3021>>, <<2992, 3021>>, <<2995>>,
                <<SPACE>>, <<LF>>, <<COMMA>>, garbled_header}

RECURSIVE Flatten(_, _)
Flatten(us, k) == IF k > Len(us) THEN <<>> ELSE us[k] \o Flatten(us, k + 1)

BuffersOf(units, n) == {Flatten(us, 1) : us \in StringsUpTo(units, n)}

Clean4Inputs == BuffersOf(Clean4Units, MaxClean4Units)

InitClean4 ==
    /\ pc = "c4_headers"
    /\ inp \in Clean4Inputs
    /\ text = inp
    /\ run = 1
    /\ SegIdle

Clean4Step(from, to, result) ==
    /\ pc = from
    /\ text' = result
    /\ pc' = to
    /\ UNCHANGED <<inp, run>>
    /\ SegUnchanged

Clean4Headers == Clean4Step("c4_headers", "c4_words", RemoveHeaderLines(text))
Clean4Words == Clean4Step("c4_words", "c4_latin", FixWords(text))
Clean4Latin == Clean4Step("c4_latin", "c4_cleanup", RemoveLatin(text))
\* cleanup, and clean4.txt written
Clean4Write == Clean4Step("c4_cleanup", "written", FinalCleanup(text))

NextClean4 == Clean4Headers \/ Clean4Words \/ Clean4Latin \/ Clean4Write

SpecClean4 == InitClean4 /\ [][NextClean4]_vars

\* C2: the text clean4.py writes contains no ASCII Latin letter.
C2_NoLatinWritten == pc = "written" => ~HasLatin(text)

\* an input with a 'P', which no pattern rule handles, and with text left over
C2_Witness ==
    /\ pc = "written"
    /\ \E p \in 1..Len(inp) : inp[p] = 80
    /\ ~Contains(inp, garbled_header)
    /\ text # <<>>

-----------------------------------------------------------------------------
(* build_db.py and extract_hadith.py: segmentation into entries *)

hadith_kw == <<3001, 2980, 3008, 3000, 3021>>
book_kw == <<2986, 3006, 2965, 2990, 3021>>
chapter_kw == <<2949, 2980, 3021, 2980, 3007, 2991, 3006, 2991, 2990, 3021>>
title_kw == <<3000, 3001, 3008, 3001>>

\* r'(ஹதீஸ்\s*[:.]?\s*\d{1,5})' at position q: the position of the last character of
\* the match, 0 if there is none. \s, [:.] and \d are disjoint, so the greedy choice
\* at each step is the only one that can match.
\* [:.]? behind position e
OptColon(s, e) == IF e + 1 <= Len(s) /\ s[e + 1] \in {58, PERIOD} THEN e + 1 ELSE e

\* \d{1,5}: of the digits e3+1..e4 the matcher takes five at most; 0 if there is none
CapDigits(e3, e4) == IF e4 <= e3 THEN 0 ELSE IF e4 > e3 + 5 THEN e3 + 5 ELSE e4

\* \d+: the digits e1+1..e2; 0 if there is none
AllDigits(e1, e2) == IF e2 <= e1 THEN 0 ELSE e2

\* r'(ஹதீஸ்\s*[:.]?\s*\d{1,5})' at position q: the position of the last character of
\* the match, 0 if there is none. \s, [:.] and \d are disjoint, so the greedy choice
\* at each step is the only one that can match.
MarkerDigits(s, e3) == CapDigits(e3, RunEnd(s, e3 + 1, IsDigit))

MarkerEnd(s, q) ==
    IF ~MatchAt(s, q, hadith_kw) THEN 0
    ELSE MarkerDigits(s, RunEnd(s, OptColon(s, RunEnd(s, q + Len(hadith_kw), IsSpace)) + 1,
                                IsSpace))

\* re.split(pattern, text), the pattern being one capturing group
RECURSIVE SplitMarkersFrom(_, _)
RECURSIVE SplitAtMarker(_, _, _)
SplitAtMarker(s, p, q) ==
    IF q = 0 THEN <<Slice(s, p, Len(s))>>
    ELSE <<Slice(s, p, q - 1), Slice(s, q, MarkerEnd(s, q))>>
             \o SplitMarkersFrom(s, MarkerEnd(s, q) + 1)

SplitMarkersFrom(s, p) ==
    LET Matches(q) == MarkerEnd(s, q) # 0
    IN SplitAtMarker(s, p, First(Matches, p, Len(s)))

SplitMarkers(s) == SplitMarkersFrom(s, 1)

\* kw\s*\d+ at position q: the position of the last character of the match, 0 if none
NumberedDigits(s, e1) == AllDigits(e1, RunEnd(s, e1 + 1, IsDigit))

NumberedEnd(s, q, kw) ==
    IF ~MatchAt(s, q, kw) THEN 0
    ELSE NumberedDigits(s, RunEnd(s, q + Len(kw), IsSpace))

\* re.search(kw\s*\d+, block): <<start, end>> of the first match, <<0, 0>> for None
NumberedSpan(block, q, kw) == IF q = 0 THEN <<0, 0>> ELSE <<q, NumberedEnd(block, q, kw)>>

SearchNumbered(block, kw) ==
    LET Matches(q) == NumberedEnd(block, q, kw) # 0
    IN NumberedSpan(block, First(Matches, 1, Len(block)), kw)

\* re.findall(r'\d+', block): <<start, end>> of the first element, <<0, 0>> if the
\* list is empty
DigitSpan(block, q) == IF q = 0 THEN <<0, 0>> ELSE <<q, RunEnd(block, q, IsDigit)>>

FirstDigits(block) ==
    LET Digit(q) == IsDigit(block[q])
    IN DigitSpan(block, First(Digit, 1, Len(block)))

Group(block, m) == Slice(block, m[1], m[2])

\* build_db.py: the minimum length of a stored body
MinLenDb == 30

\* m.group() if m else current
GroupOr(block, m, current) == IF m[1] # 0 THEN Group(block, m) ELSE current

\* the label a block leaves in current_book / current_chapter
Label(block, kw, current) == GroupOr(block, SearchNumbered(block, kw), current)

\* re.match(r'ஹதீஸ்', block)
IsHadithBlock(block) == MatchAt(block, 1, hadith_kw)

\* re.findall(r'\d+', block)[0] or parts[i+1] raises IndexError
RaisesIndexError(ps, k) ==
    /\ IsHadithBlock(ps[k])
    /\ (FirstDigits(ps[k])[1] = 0 \/ k + 1 > Len(ps))

\* the value of a decimal digit
DigitValue(c) == c - (CHOOSE z \in DigitZeros : c >= z /\ c <= z + 9)

\* int(digits)
RECURSIVE IntOf(_, _)
IntOf(digits, k) ==
    IF k = 0 THEN 0 ELSE 10 * IntOf(digits, k - 1) + DigitValue(digits[k])

\* the value SQLite stores in the INTEGER column hadith_number for the bound string:
\* the integer when the string is a well-formed integer literal (ASCII digits), the
\* text as it is otherwise
StoredNumber(digits) ==
    IF \A k \in 1..Len(digits) : digits[k] >= 48 /\ digits[k] <= 57
    THEN IntOf(digits, Len(digits)) ELSE digits

\* the parameters of the INSERT; id is the AUTOINCREMENT key of the fresh table
InsertedRow(ps, k, book, chapter, id) ==
    [id |-> id,
     hadith_number |-> StoredNumber(Group(ps[k], FirstDigits(ps[k]))),
     book |-> book,
     chapter |-> chapter,
     text_tamil |-> Strip(ps[k + 1]),
     audio_path |-> <<>>]

\* the pieces the explored clean4.txt buffers are made of
BookA == book_kw \o <<SPACE, 49>>
BookB == book_kw \o <<SPACE, 50>>
ChapterX == chapter_kw \o <<SPACE, 51>>
Marker5 == hadith_kw \o <<SPACE, 58, SPACE, 53>>
LongEntry == Marker5 \o [k \in 1..MinLenDb |-> 2965]

DbUnits == {BookA, BookB, ChapterX, Marker5, hadith_kw, LongEntry}

DbInputs == BuffersOf(DbUnits, MaxDbUnits)

\* the buffers of the runs when the script is run more than once
DbRunInputs == BuffersOf(DbUnits, MaxRunUnits)

CleanIdle == text = <<>>

InitDb ==
    /\ pc = "db_start"
    /\ inp \in DbInputs
    /\ run = 1
    /\ CleanIdle
    /\ SegIdle

\* lines 4-26: read clean4.txt, split, DROP TABLE IF EXISTS, CREATE TABLE. The
\* sqlite3 module runs the two DDL statements outside a transaction.
DbStart ==
    /\ pc = "db_start"
    /\ parts' = SplitMarkers(inp)
    /\ db' = <<>>
    /\ rows' = <<>>
    /\ current_book' = <<>>
    /\ current_chapter' = <<>>
    /\ i' = 1
    /\ pc' = "db_loop"
    /\ UNCHANGED <<inp, text, run, completed>>

\* lines 28-52: one iteration of the loop that ends normally (i is 1-based)
DbBlock ==
    /\ pc = "db_loop"
    /\ i <= Len(parts)
    /\ ~RaisesIndexError(parts, i)
    /\ LET book == Label(parts[i], book_kw, current_book)
           chapter == Label(parts[i], chapter_kw, current_chapter)
       IN /\ current_book' = book
          /\ current_chapter' = chapter
          /\ rows' = IF /\ IsHadithBlock(parts[i])
                        /\ Len(Strip(parts[i + 1])) >= MinLenDb
                     THEN Append(rows, InsertedRow(parts, i, book, chapter, Len(rows) + 1))
                     ELSE rows
    /\ i' = i + 1
    /\ UNCHANGED <<pc, inp, text, run, parts, db, completed>>

\* lines 43-44 raise IndexError: the script ends, the connection is closed without a
\* commit and the INSERTs of this run are rolled back
DbIndexError ==
    /\ pc = "db_loop"
    /\ i <= Len(parts)
    /\ RaisesIndexError(parts, i)
    /\ current_book' = Label(parts[i], book_kw, current_book)
    /\ current_chapter' = Label(parts[i], chapter_kw, current_chapter)
    /\ rows' = <<>>
    /\ pc' = "db_crashed"
    /\ UNCHANGED <<inp, text, run, parts, i, db, completed>>

\* lines 54-55: conn.commit()
DbCommit ==
    /\ pc = "db_loop"
    /\ i > Len(parts)
    /\ db' = rows
    /\ completed' = rows
    /\ rows' = <<>>
    /\ pc' = "db_done"
    /\ UNCHANGED <<inp, text, run, parts, i, current_book, current_chapter>>

NextDb == DbStart \/ DbBlock \/ DbIndexError \/ DbCommit

SpecDb == InitDb /\ [][NextDb]_vars

\* the script is run again, on any clean4.txt; bukhari.db is as the last run left it
DbRunAgain ==
    /\ pc \in {"db_done", "db_crashed"}
    /\ run < MaxRuns
    /\ inp' \in DbRunInputs
    /\ run' = run + 1
    /\ pc' = "db_start"
    /\ UNCHANGED <<text, parts, i, current_book, current_chapter, rows, db, completed>>

InitDbRuns ==
    /\ pc = "db_start"
    /\ inp \in DbRunInputs
    /\ run = 1
    /\ CleanIdle
    /\ SegIdle

NextDbRuns == NextDb \/ DbRunAgain

SpecDbRuns == InitDbRuns /\ [][NextDbRuns]_vars

-----------------------------------------------------------------------------
(* build_db.py: properties *)

\* the spans the marker pattern produced: the odd-indexed elements of the split,
\* which are the even positions of the 1-based sequence
MarkerSpans == {k \in 1..Len(parts) : k % 2 = 0}

\* span k is stored as an entry by a loop that runs to its end
Inserts(k) ==
    /\ IsHadithBlock(parts[k])
    /\ k + 1 <= Len(parts)
    /\ Len(Strip(parts[k + 1])) >= MinLenDb

\* the row of the table that span k is stored in
RowOf(k) == Cardinality({m \in 1..k : Inserts(m)})

\* the text of the buffer before span k
TextBefore(k) == Flatten(SubSeq(parts, 1, k - 1), 1)

\* the last occurrence of kw\s*\d+ in s, the empty string if there is none
LastNumbered(s, kw) ==
    LET Matches(q) == NumberedEnd(s, q, kw) # 0
    IN GroupOr(s, NumberedSpan(s, Last(Matches, 1, Len(s)), kw), <<>>)

\* C3: every stored entry carries the last book marker and the last chapter marker
\* that occur in the buffer before the entry's marker span, the empty string when
\* none occurs before it.
C3_LastLabelBeforeEntry ==
    pc = "db_done" =>
        \A k \in MarkerSpans : Inserts(k) =>
            /\ db[RowOf(k)].book = LastNumbered(TextBefore(k), book_kw)
            /\ db[RowOf(k)].chapter = LastNumbered(TextBefore(k), chapter_kw)

\* some row of the table has this body
InTable(body) == \E j \in 1..Len(db) : db[j].text_tamil = body

\* C4: when the script has ended, the entry of a marker span is in the table if
\* the trimmed span behind it has more characters than the threshold, it is not in
\* the table if that span is shorter than the threshold, and the table holds nothing
\* but the entries the filter lets pass.
C4_FilterAloneDecides ==
    pc \in {"db_done", "db_crashed"} =>
        /\ \A k \in MarkerSpans :
              /\ Len(Strip(parts[k + 1])) > MinLenDb => InTable(Strip(parts[k + 1]))
              /\ Len(Strip(parts[k + 1])) < MinLenDb => ~InTable(Strip(parts[k + 1]))
        /\ Len(db) = Cardinality({k \in MarkerSpans : Len(Strip(parts[k + 1])) >= MinLenDb})

\* C7: after any sequence of runs the table holds exactly the rows of the most
\* recent run that completed.
C7_TableOfLastCompletedRun ==
    pc \in {"db_done", "db_crashed"} => db = completed

\* C10: the loop takes only spans the marker pattern produced for entry markers,
\* and it never raises an IndexError.
C10_OnlyMarkerSpans ==
    /\ pc # "db_crashed"
    /\ pc = "db_loop" =>
          \A k \in 1..Len(parts) : (k < i /\ IsHadithBlock(parts[k])) => k \in MarkerSpans

-----------------------------------------------------------------------------
(* extract_hadith.py *)

\* the minimum length of a stored body
MinLenEx == 40

NotLF(c) == c # LF

\* a faulty variant of the title removal, in which '.' matches the newline too: the
\* buffer is cut at its first title keyword
StripTitleToEnd(s) ==
    LET Title(q) == MatchAt(s, q, title_kw)
    IN Slice(s, 1, Before(First(Title, 1, Len(s)), Len(s)))

\* re.sub(r'ஸஹீஹ.*', '', content): '.' matches anything but a newline
StripTitle(s) ==
    LET MatchEnd(q) == IF MatchAt(s, q, title_kw)
                       THEN RunEnd(s, q + Len(title_kw), NotLF) ELSE 0
        Repl(q) == <<>>
    IN Sub(s, MatchEnd, Repl)

\* re.sub(r'பாகம்\s*\d+.*', '', content)
StripBook(s) ==
    LET MatchEnd(q) == IF NumberedEnd(s, q, book_kw) # 0
                       THEN RunEnd(s, NumberedEnd(s, q, book_kw) + 1, NotLF) ELSE 0
        Repl(q) == <<>>
    IN Sub(s, MatchEnd, Repl)

\* lines 20-24: the body after header removal and strip()
StrippedBody(content) == Strip(StripBook(StripTitle(content)))

\* the pieces the explored clean2.txt buffers are made of
Body39 == [k \in 1..(MinLenEx - 1) |-> 2965]
TitleLine == title_kw \o <<LF>>

ExUnits == {Marker5, Body39, TitleLine, title_kw, book_kw, <<49>>, <<LF>>}

\* clean.py, which writes clean2.txt, empties every line that holds no Tamil
\* character and leaves no more than one empty line in a row
WrittenByClean(s) ==
    /\ \A k \in 1..Len(SplitLines(s)) :
          \/ SplitLines(s)[k] = <<>>
          \/ \E p \in 1..Len(SplitLines(s)[k]) : IsTamil(SplitLines(s)[k][p])
    /\ ~Contains(s, <<LF, LF, LF>>)

ExInputs == {s \in BuffersOf(ExUnits, MaxExUnits) : WrittenByClean(s)}

InitEx ==
    /\ pc = "ex_start"
    /\ inp \in ExInputs
    /\ run = 1
    /\ CleanIdle
    /\ SegIdle

\* lines 3-8: read clean2.txt, split
ExStart ==
    /\ pc = "ex_start"
    /\ parts' = SplitMarkers(inp)
    /\ rows' = <<>>
    /\ i' = 2
    /\ pc' = "ex_loop"
    /\ UNCHANGED <<inp, text, run, current_book, current_chapter, db, completed>>

\* lines 10-30: one iteration of for i in range(1, len(parts), 2) (i is 1-based)
ExEntry ==
    /\ pc = "ex_loop"
    /\ i <= Len(parts)
    /\ LET num == FirstDigits(parts[i])
           content == StrippedBody(parts[i + 1])
       IN rows' = IF num[1] # 0 /\ Len(content) >= MinLenEx
                  THEN Append(rows, <<IntOf(Group(parts[i], num), num[2] - num[1] + 1),
                                      content>>)
                  ELSE rows
    /\ i' = i + 2
    /\ UNCHANGED <<pc, inp, text, run, parts, current_book, current_chapter, db,
                   completed>>

\* line 32: the loop is over
ExDone ==
    /\ pc = "ex_loop"
    /\ i > Len(parts)
    /\ pc' = "ex_done"
    /\ UNCHANGED <<inp, text, run, parts, i, current_book, current_chapter, rows, db,
                   completed>>

NextEx == ExStart \/ ExEntry \/ ExDone

SpecEx == InitEx /\ [][NextEx]_vars

-----------------------------------------------------------------------------
(* extract_hadith.py: properties *)

\* the marker spans the loop has been through
ProcessedEntries == {k \in 1..Len(parts) : k % 2 = 0 /\ k < i}

\* some stored entry has this body
Stored(body) == \E j \in 1..Len(rows) : rows[j][2] = body

\* the position of the first title keyword or book marker of the span, 0 if none
FirstHeader(span) ==
    LET Header(q) == MatchAt(span, q, title_kw) \/ NumberedEnd(span, q, book_kw) # 0
    IN First(Header, 1, Len(span))

\* the span cut before its first title keyword or book marker, trimmed
TruncatedBody(span) == Strip(Slice(span, 1, Before(FirstHeader(span), Len(span))))

\* C9: the entries stored are those whose trimmed span passes the length filter,
\* and the body stored for a span is the span cut before its first title keyword or
\* book marker: nothing at or behind that occurrence, later lines included, remains.
C9_TruncatesAtFirstHeader ==
    pc \in {"ex_loop", "ex_done"} =>
        /\ \A k \in ProcessedEntries :
              Stored(TruncatedBody(parts[k + 1])) <=> Len(Strip(parts[k + 1])) >= MinLenEx
        /\ Len(rows) = Cardinality({k \in ProcessedEntries :
                                       Len(Strip(parts[k + 1])) >= MinLenEx})

\* the part of a line before its first title keyword, the whole line if it has none
CutTitle(line) ==
    LET Title(q) == MatchAt(line, q, title_kw)
    IN Slice(line, 1, Before(First(Title, 1, Len(line)), Len(line)))

\* every line of the span cut before its first title keyword
TitleCutPerLine(span) ==
    LET lines == SplitLines(span)
    IN JoinLines([k \in 1..Len(lines) |-> CutTitle(lines[k])])

\* the body that is left of a span: every line cut before its title keyword, then
\* the book markers removed, then trimmed
RemainingBody(span) == Strip(StripBook(TitleCutPerLine(span)))

\* C9 amended: the title keyword removes the rest of its own line only, so the lines
\* behind it remain in the body; the length filter is applied after the removal, to
\* what is left: an entry is stored exactly when the remaining body has at least 40
\* characters, and no stored body holds a title keyword.
C9_HeaderCutPerLine ==
    pc \in {"ex_loop", "ex_done"} =>
        /\ \A j \in 1..Len(rows) :
              Len(rows[j][2]) >= MinLenEx /\ ~Contains(rows[j][2], title_kw)
        /\ \A k \in ProcessedEntries :
              Stored(RemainingBody(parts[k + 1])) <=>
                  Len(RemainingBody(parts[k + 1])) >= MinLenEx
        /\ Len(rows) = Cardinality({k \in ProcessedEntries :
                                       Len(RemainingBody(parts[k + 1])) >= MinLenEx})

\* an entry is stored whose span holds a title keyword, with the text of the lines
\* behind the keyword in its body
C9_Witness ==
    /\ pc = "ex_done"
    /\ \E k \in ProcessedEntries :
          /\ Contains(parts[k + 1], title_kw)
          /\ Stored(RemainingBody(parts[k + 1]))
          /\ Len(RemainingBody(parts[k + 1])) >= MinLenEx
          /\ RemainingBody(parts[k + 1]) # TruncatedBody(parts[k + 1])

====
